---- MODULE Spec2Model ----
(***************************************************************************)
(* State-machine model of rogga's registry fetcher, NpmFetcher             *)
(* (crates/rogga/src/fetch/npm.rs): the router pick_registry, the cached   *)
(* metadata fetch packument_from_name and the PackageFetcher operations    *)
(* name, metadata, packument and tarball, run by concurrent tasks that     *)
(* share one client mutex and one packument cache.  The running calls are  *)
(* a bag of frames: tasks have no identity beyond the call they run.       *)
(*                                                                         *)
(* Option<T> values are sequences of length at most one: <<>> is None and  *)
(* <<x>> is Some(x).                                                       *)
(***************************************************************************)
EXTENDS Integers, Sequences, FiniteSets, Bags, TLC

(* ------------------------------ bounds -------------------------------- *)

\* number of concurrently running tasks
NumTasks == 2
\* total number of fetcher calls started in one behaviour
MaxCalls == 3
\* the registry documents move through revisions 0..MaxRev
MaxRev == 1

Revs == 0..MaxRev

(* ------------------------- Option combinators ------------------------- *)

None == <<>>
Some(x) == <<x>>
is_some(o) == o # <<>>
unwrap(o) == o[1]
or_else(o, alt) == IF is_some(o) THEN o ELSE alt

(* ------------------------------ values -------------------------------- *)

DefaultRegistry == "https://registry.npmjs.org/"
RegA == "https://a.example/"
RegB == "https://b.example/"

\* PackageSpec variants
Npm(scope, name) == [kind |-> "Npm", scope |-> scope, name |-> name]
Alias(name, package) == [kind |-> "Alias", name |-> name, package |-> package]
DirSpec == [kind |-> "Dir"]

\* PackageResolution variants
NpmResolution(version, tarball) ==
    [kind |-> "Npm", version |-> version, tarball |-> tarball]
DirResolution == [kind |-> "Dir"]
NoResolution == [kind |-> "none"]

\* names that Url::join rejects (a scheme-relative reference with no host)
InvalidNames == {"//"}

SpecValues ==
    { Npm(None, "bar"),
      Npm(Some("@foo"), "bar"),
      Npm(None, "//"),
      Alias("foo", Npm(None, "bar")),
      DirSpec,
      Alias("foo", DirSpec) }

\* version 1 is in every revision of a document, version 2 from revision 1 on
Resolutions ==
    { NpmResolution(1, "https://a.example/bar/-/bar-1.tgz"),
      NpmResolution(2, "https://a.example/bar/-/bar-2.tgz"),
      DirResolution }
\* the packages handed to metadata: version 2 is absent from revision 0
Packages ==
    [from : {Npm(None, "bar"), Alias("foo", Npm(None, "bar"))},
     resolved : {NpmResolution(2, "https://a.example/bar/-/bar-2.tgz")}]
    \cup [from : {Npm(None, "bar")}, resolved : {DirResolution}]

\* the packages handed to tarball: only pkg.resolved is read there
TarballPackages == [from : {Npm(None, "bar")}, resolved : Resolutions]

\* router tables the fetcher may be constructed with
RouterTables ==
    UNION { [D -> {RegA, RegB}] : D \in SUBSET {"", "@foo"} }
ScopeArgs == {None, Some(""), Some("@foo"), Some("@bar")}

(* --------------------------- result values ---------------------------- *)

NoResult == [kind |-> "none"]
\* unreachable!(), panic!() and unwrap() on None unwind the task
Panic == [kind |-> "panic"]
Ok(v) == [kind |-> "ok", val |-> v]
Err(e) == [kind |-> "err", err |-> e]

\* the Error values the code builds
InvalidPackageName(name) == [error |-> "InvalidPackageName", name |-> name]
FetchFailed(what) == [error |-> "FetchFailed", name |-> what]
MiscError == [error |-> "MiscError"]
\* a SerdeError that does not keep the body
SerdeError_drops_data(name, data) ==
    [error |-> "SerdeError", code |-> "OR1006", name |-> name,
     data |-> [json |-> FALSE, doc |-> [source |-> ""]]]

SerdeError(name, data) ==
    [error |-> "SerdeError", code |-> "OR1006", name |-> name, data |-> data]

(* ------------------------ the registry (network) ---------------------- *)

\* the metadata document a registry serves for a url at revision rev
VersionMetadataOf(url, v) == [version |-> v, of |-> url]
RegistryDoc(url, rev) ==
    [source |-> url, rev |-> rev,
     versions |-> [v \in 1..(rev + 1) |-> VersionMetadataOf(url, v)]]

\* response bodies: the text of a document, or text that is not a packument
JsonBody(doc) == [json |-> TRUE, doc |-> doc]
GarbageBody(url) == [json |-> FALSE, doc |-> [source |-> url]]

\* serde_json::from_str::<Packument>
from_str(body) == IF body.json THEN Ok(body.doc) ELSE Err("syntax")

CorgiAccept ==
    "application/vnd.npm.install-v1+json; q=1.0, application/json; q=0.8, */*"
JsonAccept == "application/json"

VARIABLES
    registries,   \* NpmFetcher.registries
    use_corgi,    \* NpmFetcher.use_corgi
    packuments,   \* NpmFetcher.packuments: url -> Packument
    client,       \* NpmFetcher.client: the state of the mutex
    tasks,        \* the running calls: a bag of frames (position and locals)
    clock,        \* current revision of the registry documents
    calls,        \* number of calls started
    returned,     \* history: url -> newest revision a packument call returned
    pack          \* the OroPack of the packaging run, with its project on disk

vars == <<registries, use_corgi, packuments, client, tasks, clock, calls,
          returned, pack>>

(* ------------------------------- maps ---------------------------------- *)

get(m, k) == IF k \in DOMAIN m THEN Some(m[k]) ELSE None
insert(m, k, v) == [x \in DOMAIN m \cup {k} |-> IF x = k THEN v ELSE m[x]]
EmptyMap == <<>>

Max(a, b) == IF a >= b THEN a ELSE b

(* ------------------------------ tasks ---------------------------------- *)

Running == BagToSet(tasks)
Becomes(tk, new) == tasks' = (tasks (-) SetToBag({tk})) (+) SetToBag({new})

NoResp == [json |-> FALSE, doc |-> [source |-> ""]]

\* the frame of a call: guard is the MutexGuard it holds, request its GET in
\* flight, reqs the number of GETs it has sent, floor the newest revision a
\* packument call on its url had returned when it started (history)
NewCall(op, spec, resolved) ==
    [pc |-> "called", op |-> op, spec |-> spec, resolved |-> resolved,
     scope |-> None, name |-> "", wanted |-> 0, url |-> "",
     guard |-> FALSE, request |-> None, resp |-> NoResp, result |-> NoResult,
     reqs |-> 0, floor |-> -1]

\* a call returns (or unwinds) to the code that spawned the task
Finished(tk, res) ==
    [tk EXCEPT !.pc = IF res.kind = "panic" THEN "panicked" ELSE "done",
               !.result = res]

(* ---------------------------- pick_registry ---------------------------- *)

\* a router whose scoped lookup skips the "" entry of the table
pick_registry_skips_unscoped(scope) ==
    IF is_some(scope)
    THEN unwrap(or_else(get(registries, unwrap(scope)), Some(DefaultRegistry)))
    ELSE unwrap(or_else(get(registries, ""), Some(DefaultRegistry)))

pick_registry(scope) ==
    IF is_some(scope)
    THEN unwrap(or_else(or_else(get(registries, unwrap(scope)),
                                get(registries, "")),
                        Some(DefaultRegistry)))
    ELSE unwrap(or_else(get(registries, ""), Some(DefaultRegistry)))

\* Url::join on a registry base and a package name
join(base, name) ==
    IF name \in InvalidNames THEN Err("EmptyHost") ELSE Ok(base \o name)

(* ------------------- entering packument_from_name ---------------------- *)

\* the call starts: its first statement is the lock at line 66
packument_from_name(tk, scope, name) ==
    [tk EXCEPT !.pc = "pfn_lock", !.scope = scope, !.name = name,
               !.floor = LET u == join(pick_registry(scope), name)
                         IN IF u.kind = "ok" /\ u.val \in DOMAIN returned
                            THEN returned[u.val] ELSE -1]

(* ------------------------- PackageFetcher::name ------------------------ *)

name(spec) ==
    IF spec.kind \in {"Npm", "Alias"} THEN Ok(spec.name) ELSE Panic

(* ----------------------- PackageFetcher::packument --------------------- *)

\* a packument that fetches under the alias's own name
packument_by_alias_name(tk, spec) ==
    IF spec.kind \notin {"Alias", "Npm"}
    THEN Finished(tk, Panic)
    ELSE IF spec.kind = "Alias"
    THEN packument_from_name(tk, None, spec.name)
    ELSE packument_from_name(tk, spec.scope, spec.name)

packument(tk, spec) ==
    IF spec.kind \notin {"Alias", "Npm"}
    THEN Finished(tk, Panic)
    ELSE LET pkg == IF spec.kind = "Alias" THEN spec.package ELSE spec
         IN IF pkg.kind = "Npm"
            THEN packument_from_name(tk, pkg.scope, pkg.name)
            ELSE Finished(tk, Panic)

\* packument's tail: Ok(self.packument_from_name(scope, name).await?)
packument_return(tk, res) == Finished(tk, res)

(* ----------------------- PackageFetcher::metadata ---------------------- *)

\* a metadata that reports the mismatched resolution as an error value
metadata_err_on_mismatch(tk, pkg) ==
    IF pkg.resolved.kind = "Npm"
    THEN packument([tk EXCEPT !.wanted = pkg.resolved.version], pkg.from)
    ELSE Finished(tk, Err(MiscError))

\* a metadata tail that takes the first version of the packument
metadata_return_first(tk, res) ==
    IF res.kind = "err"
    THEN Finished(tk, res)
    ELSE LET found == get(res.val.versions, tk.wanted)
         IN IF is_some(found) THEN Finished(tk, Ok(res.val.versions[1]))
                              ELSE Finished(tk, Panic)

metadata(tk, pkg) ==
    IF pkg.resolved.kind = "Npm"
    THEN packument([tk EXCEPT !.wanted = pkg.resolved.version], pkg.from)
    ELSE Finished(tk, Panic)

\* metadata's tail, once packument(..).await has a value
metadata_return(tk, res) ==
    IF res.kind = "err"
    THEN Finished(tk, res)
    ELSE LET found == get(res.val.versions, tk.wanted)
         IN IF is_some(found) THEN Finished(tk, Ok(unwrap(found)))
                              ELSE Finished(tk, Panic)

\* the value of packument_from_name goes back up through its caller
PfnReturn(tk, res) ==
    IF tk.op = "metadata" THEN metadata_return(tk, res)
                          ELSE packument_return(tk, res)

\* history: packument_from_name returns res for the url of tk
Returned(tk, res) ==
    IF res.kind = "ok"
    THEN [u \in DOMAIN returned \cup {tk.url} |->
            IF u # tk.url THEN returned[u]
            ELSE IF u \in DOMAIN returned THEN Max(returned[u], res.val.rev)
            ELSE res.val.rev]
    ELSE returned

(* --------------------------- the packument cache ----------------------- *)

\* a lookup by package name: any entry whose url ends in the same name
cache_get_by_name(url) ==
    LET NameOf(u) == CHOOSE n \in {"bar", "foo"} :
                        \E b \in {RegA, RegB, DefaultRegistry} : u = b \o n
        same == {u \in DOMAIN packuments : NameOf(u) = NameOf(url)}
    IN IF same = {} THEN None
       ELSE Some(packuments[CHOOSE u \in same : u # url \/ same = {url}])

\* line 71: self.packuments.get(&packument_url)
cache_get(url) == get(packuments, url)

\* an insert that is lost
cache_insert_lost(url, p) == packuments

\* an insert that keeps the entry already there (entry().or_insert)
cache_insert_keeps_first(url, p) ==
    IF url \in DOMAIN packuments THEN packuments ELSE insert(packuments, url, p)

\* line 96: self.packuments.insert(packument_url, packument.clone())
cache_insert(url, p) == insert(packuments, url, p)

(* ------------------- OroPack (artifact packaging) ---------------------- *)

\* the files a project may hold next to its package.json
ProjectFiles == {"README.md", "src/index.js", "src/module.js"}
\* the "files" lists a manifest may declare
ManifestFiles ==
    { <<>>, <<"src">>, <<"src/index.js">>, <<"README.md">>,
      <<"src/module.js", "src/index.js">> }
\* the manifest itself and the readme are in every archive
AlwaysIncluded == {"package.json", "README.md"}

\* Path's Ord on the paths of the model: byte order, component by component
PathRank(path) ==
    CASE path = "README.md" -> 1
      [] path = "package.json" -> 2
      [] path = "src/index.js" -> 3
      [] path = "src/module.js" -> 4

\* an entry of "files" names a file, or a directory with all that is in it
Matches(entry, path) ==
    \/ entry = path
    \/ entry = "src" /\ path \in {"src/index.js", "src/module.js"}

RECURSIVE SortPaths(_)
SortPaths(S) ==
    IF S = {} THEN <<>>
    ELSE LET first == CHOOSE x \in S : \A y \in S : PathRank(x) <= PathRank(y)
         IN <<first>> \o SortPaths(S \ {first})

\* a packaging that takes an empty "files" list for no list at all
project_paths_empty_is_all(root, files) ==
    SortPaths({path \in root :
                  \/ path \in AlwaysIncluded
                  \/ files = <<>>
                  \/ \E i \in DOMAIN files : Matches(files[i], path)})

\* OroPack::project_paths: the always-included files and the files the
\* manifest's list names, of those the project holds, in path order
project_paths(root, files) ==
    SortPaths({path \in root :
                  \/ path \in AlwaysIncluded
                  \/ \E i \in DOMAIN files : Matches(files[i], path)})

\* no packaging run
NoPack ==
    [pc |-> "none", root |-> {}, manifest |-> [files |-> <<>>], pkg |-> None,
     paths |-> <<>>]

(* ------------------------------- Init ---------------------------------- *)

\* NpmFetcher::new(client, use_corgi, registries)
Constructed ==
    /\ packuments = EmptyMap
    /\ client = "unlocked"
    /\ tasks = EmptyBag
    /\ clock = 0
    /\ calls = 0
    /\ returned = EmptyMap

\* a fetcher that routes "" to RegA and "@foo" to RegB and asks for corgis
Init ==
    /\ registries = [s \in {"", "@foo"} |-> IF s = "" THEN RegA ELSE RegB]
    /\ use_corgi = TRUE
    /\ Constructed
    /\ pack = NoPack

\* every router table, for the claims about pick_registry
InitRouter ==
    /\ registries \in RouterTables
    /\ use_corgi = TRUE
    /\ Constructed
    /\ pack = NoPack

\* both settings of use_corgi
InitCorgi ==
    /\ registries = [s \in {"", "@foo"} |-> IF s = "" THEN RegA ELSE RegB]
    /\ use_corgi \in BOOLEAN
    /\ Constructed
    /\ pack = NoPack

\* a project on disk with its package.json, before OroPack::new()
InitPack ==
    /\ registries = [s \in {"", "@foo"} |-> IF s = "" THEN RegA ELSE RegB]
    /\ use_corgi = TRUE
    /\ Constructed
    /\ \E files \in SUBSET ProjectFiles, list \in ManifestFiles :
          pack = [NoPack EXCEPT !.pc = "start",
                                !.root = files \cup {"package.json"},
                                !.manifest = [files |-> list]]

(* ------------------------- calls by the tasks -------------------------- *)

\* a task is spawned for a new call
Spawns(frame) ==
    /\ BagCardinality(tasks) < NumTasks
    /\ calls < MaxCalls
    /\ calls' = calls + 1
    /\ tasks' = tasks (+) SetToBag({frame})
    /\ UNCHANGED <<pack, registries, use_corgi, packuments, client, clock, returned>>

CallName(spec) ==
    Spawns(Finished(NewCall("name", spec, NoResolution), name(spec)))

CallPackument(spec) ==
    Spawns(packument(NewCall("packument", spec, NoResolution), spec))

CallMetadata(pkg) ==
    Spawns(metadata(NewCall("metadata", pkg.from, pkg.resolved), pkg))

\* tarball starts by waiting for the client mutex (line 147)
CallTarball(pkg) ==
    Spawns([NewCall("tarball", pkg.from, pkg.resolved) EXCEPT !.pc = "tb_lock"])

(* ------------------------ packument_from_name -------------------------- *)

\* line 66: self.client.lock().await
PfnLock(tk) ==
    /\ tk.pc = "pfn_lock"
    /\ client = "unlocked"
    /\ client' = "locked"
    /\ Becomes(tk, [tk EXCEPT !.pc = "pfn_clone", !.guard = TRUE])
    /\ UNCHANGED <<pack, registries, use_corgi, packuments, clock, calls, returned>>

\* the clone with the guard bound to a variable that lives on
PfnCloneKeepsGuard(tk) ==
    /\ tk.pc = "pfn_clone"
    /\ client' = client
    /\ Becomes(tk, [tk EXCEPT !.pc = "pfn_lookup"])
    /\ UNCHANGED <<pack, registries, use_corgi, packuments, clock, calls, returned>>

\* line 66: .clone(); the guard is a temporary, dropped with the statement
PfnClone(tk) ==
    /\ tk.pc = "pfn_clone"
    /\ client' = "unlocked"
    /\ Becomes(tk, [tk EXCEPT !.pc = "pfn_lookup", !.guard = FALSE])
    /\ UNCHANGED <<pack, registries, use_corgi, packuments, clock, calls, returned>>

\* a GET that asks for the corgi whatever the flag says
RequestAlwaysCorgi(url) ==
    [method |-> "GET", url |-> url, accept |-> CorgiAccept]

\* the GET of lines 74-83
Request(url) ==
    [method |-> "GET", url |-> url,
     accept |-> IF use_corgi THEN CorgiAccept ELSE JsonAccept]

\* lines 67-84: build the url, look it up in the cache; on a miss send the
\* GET (nothing is awaited between the lookup and the send)
PfnLookup(tk) ==
    /\ tk.pc = "pfn_lookup"
    /\ LET packument_url == join(pick_registry(tk.scope), tk.name)
       IN IF packument_url.kind = "err"
          THEN /\ Becomes(tk, PfnReturn(tk, Err(InvalidPackageName(tk.name))))
               /\ returned' = returned
          ELSE LET cached == cache_get(packument_url.val)
                   tu == [tk EXCEPT !.url = packument_url.val]
               IN IF is_some(cached)
                  THEN /\ Becomes(tk, PfnReturn(tu, Ok(unwrap(cached))))
                       /\ returned' = Returned(tu, Ok(unwrap(cached)))
                  ELSE /\ Becomes(tk, [tu EXCEPT !.pc = "pfn_wait",
                                                 !.request = Some(Request(tu.url)),
                                                 !.reqs = @ + 1])
                       /\ returned' = returned
    /\ UNCHANGED <<pack, registries, use_corgi, packuments, client, clock, calls>>

\* lines 84-85: send(..).await resolves; a failure gets the "Failed to get
\* packument" context and is returned
PfnResponse(tk, ok, wellformed) ==
    /\ tk.pc = "pfn_wait"
    /\ LET body == IF wellformed THEN JsonBody(RegistryDoc(tk.url, clock))
                                 ELSE GarbageBody(tk.url)
           tu == [tk EXCEPT !.request = None]
       IN Becomes(tk, IF ok THEN [tu EXCEPT !.pc = "pfn_body", !.resp = body]
                            ELSE PfnReturn(tu, Err(FetchFailed(tk.name))))
    /\ UNCHANGED <<pack, registries, use_corgi, packuments, client, clock, calls,
                   returned>>

\* a parse failure that leaves an empty packument in the cache
PfnBodyInsertsDefault(tk, readable) ==
    /\ tk.pc = "pfn_body"
    /\ LET packument_data == tk.resp
           parsed == from_str(packument_data)
       IN IF ~readable
          THEN /\ Becomes(tk, PfnReturn(tk, Err(MiscError)))
               /\ UNCHANGED <<packuments, returned>>
          ELSE IF parsed.kind = "err"
          THEN /\ Becomes(tk, PfnReturn(tk,
                                Err(SerdeError(tk.name, packument_data))))
               /\ packuments' = cache_insert(tk.url,
                                    [source |-> tk.url, rev |-> 0,
                                     versions |-> <<>>])
               /\ returned' = returned
          ELSE /\ packuments' = cache_insert(tk.url, parsed.val)
               /\ Becomes(tk, PfnReturn(tk, Ok(parsed.val)))
               /\ returned' = Returned(tk, Ok(parsed.val))
    /\ UNCHANGED <<pack, registries, use_corgi, client, clock, calls>>

\* lines 86-97: body_string().await, parse, insert, return
PfnBody(tk, readable) ==
    /\ tk.pc = "pfn_body"
    /\ LET packument_data == tk.resp
           parsed == from_str(packument_data)
       IN IF ~readable
          THEN /\ Becomes(tk, PfnReturn(tk, Err(MiscError)))
               /\ UNCHANGED <<packuments, returned>>
          ELSE IF parsed.kind = "err"
          THEN /\ Becomes(tk, PfnReturn(tk,
                                Err(SerdeError(tk.name, packument_data))))
               /\ UNCHANGED <<packuments, returned>>
          ELSE /\ packuments' = cache_insert(tk.url, parsed.val)
               /\ Becomes(tk, PfnReturn(tk, Ok(parsed.val)))
               /\ returned' = Returned(tk, Ok(parsed.val))
    /\ UNCHANGED <<pack, registries, use_corgi, client, clock, calls>>

(* ------------------------------ tarball -------------------------------- *)

\* line 147: self.client.lock().await
TarballLock(tk) ==
    /\ tk.pc = "tb_lock"
    /\ client = "unlocked"
    /\ client' = "locked"
    /\ Becomes(tk, [tk EXCEPT !.pc = "tb_clone", !.guard = TRUE])
    /\ UNCHANGED <<pack, registries, use_corgi, packuments, clock, calls, returned>>

\* the clone with the guard bound to a variable that lives on
TarballCloneKeepsGuard(tk) ==
    /\ tk.pc = "tb_clone"
    /\ client' = client
    /\ Becomes(tk, [tk EXCEPT !.pc = "tb_send"])
    /\ UNCHANGED <<pack, registries, use_corgi, packuments, clock, calls, returned>>

\* line 147: .clone(); the guard is dropped with the statement
TarballClone(tk) ==
    /\ tk.pc = "tb_clone"
    /\ client' = "unlocked"
    /\ Becomes(tk, [tk EXCEPT !.pc = "tb_send", !.guard = FALSE])
    /\ UNCHANGED <<pack, registries, use_corgi, packuments, clock, calls, returned>>

\* a send that asks for a url built from the package name
TarballSendByName(tk) ==
    /\ tk.pc = "tb_send"
    /\ Becomes(tk, IF tk.resolved.kind = "Npm"
                   THEN [tk EXCEPT !.pc = "tb_wait",
                                   !.url = pick_registry(None) \o tk.spec.name,
                                   !.request =
                                       Some([method |-> "GET",
                                             url |-> pick_registry(None)
                                                        \o tk.spec.name,
                                             accept |-> ""]),
                                   !.reqs = @ + 1]
                   ELSE Finished(tk, Panic))
    /\ UNCHANGED <<pack, registries, use_corgi, packuments, client, clock, calls,
                   returned>>

\* lines 148-155: match pkg.resolved, then client.send(..)
TarballSend(tk) ==
    /\ tk.pc = "tb_send"
    /\ Becomes(tk, IF tk.resolved.kind = "Npm"
                   THEN [tk EXCEPT !.pc = "tb_wait",
                                   !.url = tk.resolved.tarball,
                                   !.request = Some([method |-> "GET",
                                                     url |-> tk.resolved.tarball,
                                                     accept |-> ""]),
                                   !.reqs = @ + 1]
                   ELSE Finished(tk, Panic))
    /\ UNCHANGED <<pack, registries, use_corgi, packuments, client, clock, calls,
                   returned>>

\* lines 155-157: the response is boxed as the stream, a failure is returned
TarballResponse(tk, ok) ==
    /\ tk.pc = "tb_wait"
    /\ LET tu == [tk EXCEPT !.request = None]
       IN Becomes(tk, IF ok THEN Finished(tu, Ok([stream_of |-> tk.url]))
                            ELSE Finished(tu, Err(FetchFailed(tk.resolved))))
    /\ UNCHANGED <<pack, registries, use_corgi, packuments, client, clock, calls,
                   returned>>

(* ------------------------------ OroPack -------------------------------- *)

\* OroPack::new()
PackNew ==
    /\ pack.pc = "start"
    /\ pack' = [pack EXCEPT !.pc = "new", !.pkg = None]
    /\ UNCHANGED <<registries, use_corgi, packuments, client, tasks, clock,
                   calls, returned>>

\* pack.load(): reads the package.json of the current directory
PackLoad ==
    /\ pack.pc = "new"
    /\ pack' = [pack EXCEPT !.pc = "loaded", !.pkg = Some(pack.manifest)]
    /\ UNCHANGED <<registries, use_corgi, packuments, client, tasks, clock,
                   calls, returned>>

\* pack.project_paths()
PackProjectPaths ==
    /\ pack.pc = "loaded"
    /\ pack' = [pack EXCEPT !.pc = "listed",
                            !.paths = project_paths(pack.root,
                                                    unwrap(pack.pkg).files)]
    /\ UNCHANGED <<registries, use_corgi, packuments, client, tasks, clock,
                   calls, returned>>

(* ---------------------------- environment ------------------------------ *)

\* the .await points of packument_from_name (lines 66, 84, 87) and of
\* tarball (lines 147, 155): where a task can be left suspended
SuspensionPoints == {"pfn_lock", "pfn_wait", "pfn_body", "tb_lock", "tb_wait"}

\* the task of a suspended call is dropped: the future goes with all it
\* owns (its clone of the client, its request, a guard if it held one)
Abandon(tk) ==
    /\ tk.pc \in SuspensionPoints
    /\ client' = IF tk.guard THEN "unlocked" ELSE client
    /\ Becomes(tk, [tk EXCEPT !.pc = "dropped", !.request = None,
                              !.guard = FALSE])
    /\ UNCHANGED <<pack, registries, use_corgi, packuments, clock, calls, returned>>

\* the spawner takes the outcome of a finished call and the task ends; a
\* dropped task ends the same way, with no outcome
Return(tk) ==
    /\ tk.pc \in {"done", "panicked", "dropped"}
    /\ tasks' = tasks (-) SetToBag({tk})
    /\ UNCHANGED <<pack, registries, use_corgi, packuments, client, clock, calls,
                   returned>>

\* the registries publish: every document moves to its next revision
Publish ==
    /\ clock < MaxRev
    /\ clock' = clock + 1
    /\ UNCHANGED <<pack, registries, use_corgi, packuments, client, tasks, calls,
                   returned>>

\* Return touches nothing but the finished task, so it commutes with every
\* other step: the outcome of a call is taken as soon as it is there, and
\* the other steps wait until no finished call is left
Quiet == \A tk \in Running : tk.pc \notin {"done", "panicked", "dropped"}

Next ==
    \/ \E tk \in Running : Return(tk)
    \/ Quiet /\ \E spec \in SpecValues : CallName(spec)
    \/ Quiet /\ \E spec \in SpecValues : CallPackument(spec)
    \/ Quiet /\ \E pkg \in Packages : CallMetadata(pkg)
    \/ Quiet /\ \E pkg \in TarballPackages : CallTarball(pkg)
    \/ Quiet /\ \E tk \in Running : PfnLock(tk)
    \/ Quiet /\ \E tk \in Running : PfnClone(tk)
    \/ Quiet /\ \E tk \in Running : PfnLookup(tk)
    \/ Quiet /\ \E tk \in Running, ok \in BOOLEAN, wellformed \in BOOLEAN :
          PfnResponse(tk, ok, wellformed)
    \/ Quiet /\ \E tk \in Running, readable \in BOOLEAN : PfnBody(tk, readable)
    \/ Quiet /\ \E tk \in Running : TarballLock(tk)
    \/ Quiet /\ \E tk \in Running : TarballClone(tk)
    \/ Quiet /\ \E tk \in Running : TarballSend(tk)
    \/ Quiet /\ \E tk \in Running, ok \in BOOLEAN : TarballResponse(tk, ok)
    \/ Quiet /\ Publish

\* the callers ask for packuments only
NextRouter ==
    \/ \E tk \in Running : Return(tk)
    \/ Quiet /\ \E spec \in SpecValues : CallPackument(spec)
    \/ Quiet /\ \E tk \in Running : PfnLock(tk)
    \/ Quiet /\ \E tk \in Running : PfnClone(tk)
    \/ Quiet /\ \E tk \in Running : PfnLookup(tk)
    \/ Quiet /\ \E tk \in Running, ok \in BOOLEAN, wellformed \in BOOLEAN :
          PfnResponse(tk, ok, wellformed)
    \/ Quiet /\ \E tk \in Running, readable \in BOOLEAN : PfnBody(tk, readable)
    \/ Quiet /\ Publish

\* packument and tarball calls that may be abandoned while suspended
NextAbandon ==
    \/ \E tk \in Running : Return(tk)
    \/ Quiet /\ \E spec \in SpecValues : CallPackument(spec)
    \/ Quiet /\ \E pkg \in TarballPackages : CallTarball(pkg)
    \/ Quiet /\ \E tk \in Running : PfnLock(tk)
    \/ Quiet /\ \E tk \in Running : PfnClone(tk)
    \/ Quiet /\ \E tk \in Running : PfnLookup(tk)
    \/ Quiet /\ \E tk \in Running, ok \in BOOLEAN, wellformed \in BOOLEAN :
          PfnResponse(tk, ok, wellformed)
    \/ Quiet /\ \E tk \in Running, readable \in BOOLEAN : PfnBody(tk, readable)
    \/ Quiet /\ \E tk \in Running : TarballLock(tk)
    \/ Quiet /\ \E tk \in Running : TarballClone(tk)
    \/ Quiet /\ \E tk \in Running : TarballSend(tk)
    \/ Quiet /\ \E tk \in Running, ok \in BOOLEAN : TarballResponse(tk, ok)
    \/ Quiet /\ \E tk \in Running : Abandon(tk)

\* one packaging run
NextPack ==
    \/ PackNew
    \/ PackLoad
    \/ PackProjectPaths

\* the four operations against registries that do not publish
NextLive ==
    \/ \E tk \in Running : Return(tk)
    \/ Quiet /\ \E spec \in SpecValues : CallName(spec)
    \/ Quiet /\ \E spec \in SpecValues : CallPackument(spec)
    \/ Quiet /\ \E pkg \in Packages : CallMetadata(pkg)
    \/ Quiet /\ \E pkg \in TarballPackages : CallTarball(pkg)
    \/ Quiet /\ \E tk \in Running : PfnLock(tk)
    \/ Quiet /\ \E tk \in Running : PfnClone(tk)
    \/ Quiet /\ \E tk \in Running : PfnLookup(tk)
    \/ Quiet /\ \E tk \in Running, ok \in BOOLEAN, wellformed \in BOOLEAN :
          PfnResponse(tk, ok, wellformed)
    \/ Quiet /\ \E tk \in Running, readable \in BOOLEAN : PfnBody(tk, readable)
    \/ Quiet /\ \E tk \in Running : TarballLock(tk)
    \/ Quiet /\ \E tk \in Running : TarballClone(tk)
    \/ Quiet /\ \E tk \in Running : TarballSend(tk)
    \/ Quiet /\ \E tk \in Running, ok \in BOOLEAN : TarballResponse(tk, ok)

\* a step of a running call: the executor polls it, the mutex is handed
\* over, the network answers its request, its outcome is taken
Progress ==
    \/ \E tk \in Running : Return(tk)
    \/ Quiet /\ \E tk \in Running :
          \/ PfnLock(tk)
          \/ PfnClone(tk)
          \/ PfnLookup(tk)
          \/ \E ok \in BOOLEAN, wellformed \in BOOLEAN :
                PfnResponse(tk, ok, wellformed)
          \/ \E readable \in BOOLEAN : PfnBody(tk, readable)
          \/ TarballLock(tk)
          \/ TarballClone(tk)
          \/ TarballSend(tk)
          \/ \E ok \in BOOLEAN : TarballResponse(tk, ok)

Spec == Init /\ [][Next]_vars
\* fair scheduling and a network that answers: a call that can take a step
\* is not left waiting forever
SpecLive == Init /\ [][NextLive]_vars /\ WF_vars(Progress)
SpecPack == InitPack /\ [][NextPack]_vars
SpecAbandon == Init /\ [][NextAbandon]_vars
SpecRouter == InitRouter /\ [][NextRouter]_vars
SpecCorgi == InitCorgi /\ [][Next]_vars

TypeOK ==
    /\ client \in {"unlocked", "locked"}
    /\ clock \in Revs
    /\ calls \in 0..MaxCalls
    /\ BagCardinality(tasks) <= NumTasks

(* ======================================================================= *)
(*                               the claims                                *)
(* ======================================================================= *)

Finishing(tk) == tk.pc \in {"done", "panicked"}
InPfn(tk) == tk.op \in {"packument", "metadata"}
NumInFlight ==
    BagCardinality([tk \in {x \in Running : is_some(x.request)} |-> tasks[tk]])

\* C1: a packument_from_name call that starts after a call on the same url
\* has returned a packument (floor >= 0: the insert has happened) sends no
\* GET, and returns the value the cache holds for that url.
C1_CacheHitAvoidsNetwork ==
    \A tk \in Running :
        (InPfn(tk) /\ tk.floor >= 0) =>
            /\ tk.reqs = 0
            /\ tk.request = None
            /\ tk.pc \notin {"pfn_wait", "pfn_body"}
            /\ (tk.pc = "done" /\ tk.op = "packument") =>
                  /\ tk.url \in DOMAIN packuments
                  /\ tk.result = Ok(packuments[tk.url])

\* a later call has returned from the cache while another url is cached too
C1_Witness ==
    \E tk \in Running :
        /\ tk.op = "packument" /\ tk.pc = "done" /\ tk.floor >= 0
        /\ tk.reqs = 0 /\ tk.result = Ok(packuments[tk.url])
        /\ Cardinality(DOMAIN packuments) >= 2

\* C2: a task that holds the guard of the client mutex has no GET in flight:
\* the guard lives only between the lock and the end of the clone statement,
\* and the mutex is locked exactly while some task holds the guard.
C2_LockNotHeldAcrossRequest ==
    /\ \A tk \in Running :
          tk.guard => (tk.request = None /\ tk.pc \in {"pfn_clone", "tb_clone"})
    /\ \A tk \in Running : is_some(tk.request) <=> tk.pc \in {"pfn_wait", "tb_wait"}
    /\ (client = "locked") <=> (\E tk \in Running : tk.guard)

\* a packument GET and another GET are in flight at once, the mutex free
C2_Witness ==
    /\ NumInFlight >= 2
    /\ \E tk \in Running : tk.pc = "pfn_wait"
    /\ client = "unlocked"

\* C3: every call that missed has sent its GET whatever the cache holds by
\* now, and when a call that fetched returns its packument the entry of the
\* url is that packument: the insert replaces what an earlier call inserted.
C3_LastWriteWins ==
    \A tk \in Running :
        /\ (InPfn(tk) /\ tk.pc \in {"pfn_wait", "pfn_body"}) => tk.reqs = 1
        /\ (tk.op = "packument" /\ tk.pc = "done" /\ tk.reqs = 1
                /\ tk.result.kind = "ok") =>
              /\ tk.url \in DOMAIN packuments
              /\ packuments[tk.url] = tk.result.val

\* a call that fetched revision r returns after a newer revision of the same
\* url was returned by its rival: its insert has overwritten the newer entry
C3_Witness ==
    \E tk \in Running :
        /\ tk.op = "packument" /\ tk.pc = "done" /\ tk.reqs = 1
        /\ tk.result.kind = "ok"
        /\ tk.floor = -1
        /\ returned[tk.url] > tk.result.val.rev
        /\ packuments[tk.url] = tk.result.val

\* C4: a packument call returns a revision not older than any revision that a
\* packument call on the same url had returned before it started.
C4_NeverStale ==
    \A tk \in Running :
        (tk.op = "packument" /\ tk.pc = "done" /\ tk.result.kind = "ok") =>
            tk.result.val.rev >= tk.floor

\* the three tiers of the router, as the claim states them
ThreeTier(scope) ==
    IF is_some(scope) /\ unwrap(scope) \in DOMAIN registries
    THEN registries[unwrap(scope)]
    ELSE IF "" \in DOMAIN registries THEN registries[""]
    ELSE DefaultRegistry

\* C5: pick_registry(scope) is table[scope] if scope is given and in the
\* table, else table[""] if that is in the table, else the default registry;
\* so an empty table yields the default for every scope argument, the table
\* {"": A, "@foo": B} yields B for "@foo" and A for "@bar" and for None, and
\* every url a call has built starts with the registry of the three tiers.
C5_PickRegistryThreeTier ==
    /\ \A sc \in ScopeArgs : pick_registry(sc) = ThreeTier(sc)
    /\ (DOMAIN registries = {}) =>
          \A sc \in ScopeArgs : pick_registry(sc) = DefaultRegistry
    /\ ("" \in DOMAIN registries /\ "@foo" \in DOMAIN registries) =>
          /\ pick_registry(Some("@foo")) = registries["@foo"]
          /\ pick_registry(Some("@bar")) = registries[""]
          /\ pick_registry(None) = registries[""]
    /\ \A tk \in Running :
          (InPfn(tk) /\ tk.url # "") => tk.url = ThreeTier(tk.scope) \o tk.name

\* with only "" in the table, a call for scope "@foo" has fetched from the
\* registry of ""
C5_Witness ==
    /\ DOMAIN registries = {""}
    /\ \E tk \in Running :
          /\ tk.scope = Some("@foo") /\ tk.pc = "done" /\ tk.reqs = 1
          /\ tk.url = registries[""] \o "bar"

\* the spec whose registry document packument(spec) has to fetch
Target(spec) == IF spec.kind = "Alias" THEN spec.package ELSE spec
TargetUrl(spec) == join(pick_registry(Target(spec).scope), Target(spec).name)
Supported(spec) ==
    \/ spec.kind = "Npm"
    \/ spec.kind = "Alias" /\ spec.package.kind = "Npm"

\* a step in which the frame tk starts, moves on or ends
Moves(tk) == CopiesIn(tk, tasks') # CopiesIn(tk, tasks)
Frames == BagToSet(tasks) \cup BagToSet(tasks')

C6_AliasFrames ==
    \A tk \in Running :
        tk.spec.kind = "Alias" =>
            /\ (tk.op = "packument" /\ Supported(tk.spec)) =>
                  /\ tk.scope = tk.spec.package.scope
                  /\ tk.name = tk.spec.package.name
                  /\ tk.url # "" => Ok(tk.url) = TargetUrl(tk.spec)
                  /\ is_some(tk.request) =>
                        Ok(unwrap(tk.request).url) = TargetUrl(tk.spec)
                  /\ (tk.pc = "done" /\ tk.result.kind = "ok") =>
                        /\ tk.result.val.source = TargetUrl(tk.spec).val
                        /\ tk.url \in DOMAIN packuments
                        /\ tk.reqs = 1 => packuments[tk.url] = tk.result.val
            /\ tk.op = "name" =>
                  /\ tk.pc = "done" /\ tk.result = Ok(tk.spec.name)
                  /\ tk.reqs = 0 /\ tk.request = None /\ ~tk.guard

\* C6: packument(Alias) runs packument_from_name on the scope and name of the
\* aliased target, so the url it looks up, requests and inserts under is the
\* target's; name(Alias) returns the alias's own name, and a name call sends
\* no GET, never holds the guard and leaves cache and mutex as they are.
C6_AliasResolvesTarget ==
    /\ []C6_AliasFrames
    /\ [][\A tk \in Frames :
            (tk.op = "name" /\ Moves(tk)) =>
                (packuments' = packuments /\ client' = client)]_vars

\* packument(Alias foo -> bar) has its GET for bar's url in flight while
\* name(Alias foo -> bar) has returned "foo"
C6_Witness ==
    /\ \E tk \in Running :
          /\ tk.spec = Alias("foo", Npm(None, "bar")) /\ tk.op = "packument"
          /\ tk.pc = "pfn_wait"
          /\ unwrap(tk.request).url = RegA \o "bar"
    /\ \E tk \in Running :
          /\ tk.spec = Alias("foo", Npm(None, "bar")) /\ tk.op = "name"
          /\ tk.pc = "done" /\ tk.result = Ok("foo")

\* C7: a metadata call with a registry resolution whose packument fetch
\* succeeded works on the url of the target of pkg.from; if the version is in
\* that packument it returns exactly versions[resolved.version]; it sends no
\* GET when the url was cached when it started, and the packument it fetched
\* itself is the one in the cache.
C7_MetadataIsVersionEntry ==
    \A tk \in Running :
        (tk.op = "metadata" /\ Finishing(tk) /\ tk.resolved.kind = "Npm"
            /\ tk.url # "" /\ tk.result.kind \in {"ok", "panic"}) =>
            /\ Ok(tk.url) = TargetUrl(tk.spec)
            /\ tk.url \in DOMAIN packuments
            /\ tk.resolved.version \in DOMAIN packuments[tk.url].versions =>
                  tk.result =
                      Ok(packuments[tk.url].versions[tk.resolved.version])
            /\ tk.floor >= 0 => tk.reqs = 0
            /\ tk.reqs = 1 => packuments[tk.url] = from_str(tk.resp).val

\* metadata of an aliased package has returned version 2 out of the cache
C7_Witness ==
    \E tk \in Running :
        /\ tk.op = "metadata" /\ tk.pc = "done" /\ tk.spec.kind = "Alias"
        /\ tk.floor >= 0 /\ tk.reqs = 0
        /\ tk.result = Ok(VersionMetadataOf(RegA \o "bar", 2))

\* C8: a metadata call whose packument fetch succeeded and whose version is
\* not in the packument returns the error VersionNotFound to its caller.
C8_VersionNotFound ==
    \A tk \in Running :
        (tk.op = "metadata" /\ Finishing(tk) /\ tk.resolved.kind = "Npm"
            /\ tk.url \in DOMAIN packuments
            /\ ~(tk.result.kind = "err" /\ tk.result.err.error \in
                    {"InvalidPackageName", "FetchFailed", "MiscError",
                     "SerdeError"})
            /\ tk.resolved.version \notin DOMAIN packuments[tk.url].versions) =>
            /\ tk.pc = "done"
            /\ tk.result.kind = "err"
            /\ tk.result.err.error = "VersionNotFound"

\* C9: name and packument, called with a spec that is neither Npm nor an
\* Alias of an Npm spec, return the error UnsupportedSpec, send no GET and
\* never reach the cache.
C9_UnsupportedSpec ==
    \A tk \in Running :
        (tk.op \in {"name", "packument"} /\ ~Supported(tk.spec)) =>
            /\ tk.pc = "done"
            /\ tk.result.kind = "err"
            /\ tk.result.err.error = "UnsupportedSpec"
            /\ tk.reqs = 0 /\ tk.request = None /\ tk.url = ""

C10_MismatchFrames ==
    \A tk \in Running :
        (tk.op \in {"metadata", "tarball"} /\ tk.resolved.kind # "Npm") =>
            /\ tk.pc \in {"tb_lock", "tb_clone", "tb_send", "panicked"}
            /\ tk.op = "metadata" => tk.pc = "panicked"
            /\ tk.result.kind \in {"none", "panic"}
            /\ tk.reqs = 0 /\ tk.request = None /\ tk.url = ""
            /\ tk.pc = "panicked" =>
                  (tk.result = Panic /\ ~tk.guard)

\* C10: metadata and tarball, called with a resolution that is not Npm, end
\* in a panic and never in a value or an Err; such a call sends no GET, no
\* step of it changes the cache, and it holds no guard when it panics.
C10_MismatchIsFatal ==
    /\ []C10_MismatchFrames
    /\ [][\A tk \in Frames :
            (tk.op \in {"metadata", "tarball"} /\ tk.resolved.kind # "Npm"
                /\ Moves(tk)) => packuments' = packuments]_vars

\* tarball of a Dir resolution has panicked, after its turn with the mutex,
\* with the mutex free again and a packument in the cache
C10_Witness ==
    /\ \E tk \in Running :
          /\ tk.op = "tarball" /\ tk.resolved = DirResolution
          /\ tk.pc = "panicked"
    /\ client = "unlocked"
    /\ packuments # EmptyMap

\* the frame tk is there after the step and was not there before it
Arrives(tk) == CopiesIn(tk, tasks') > CopiesIn(tk, tasks)
Failed(tk, kind) == tk.result.kind = "err" /\ tk.result.err.error = kind

C11_ParseErrorFrames ==
    \A tk \in Running :
        /\ (InPfn(tk) /\ Failed(tk, "SerdeError")) =>
              /\ tk.result.err.name = tk.name
              /\ tk.result.err.data = tk.resp
              /\ tk.resp = GarbageBody(tk.url)
              /\ tk.result.err.code = "OR1006"
              /\ tk.reqs = 1
        /\ (InPfn(tk) /\ Finishing(tk) /\ tk.reqs = 1 /\ tk.resp # NoResp
                /\ from_str(tk.resp).kind = "err"
                /\ ~Failed(tk, "MiscError")) =>
              Failed(tk, "SerdeError")

\* C11: a packument call whose body was read and does not parse ends in the
\* parse error (SerdeError, code OR1006) that carries the package name and
\* the body exactly as it was received, and the step in which it ends leaves
\* the cache as it was.
C11_ParseErrorKeepsBody ==
    /\ []C11_ParseErrorFrames
    /\ [][\A tk \in Frames :
            (InPfn(tk) /\ Failed(tk, "SerdeError") /\ Arrives(tk)) =>
                packuments' = packuments]_vars

\* packument(@foo/bar) got a body that is not a packument and has returned
\* the parse error with it, while the url is not in the cache
C11_Witness ==
    \E tk \in Running :
        /\ tk.op = "packument" /\ tk.pc = "done" /\ tk.scope = Some("@foo")
        /\ Failed(tk, "SerdeError")
        /\ tk.result.err.data = GarbageBody(RegB \o "bar")
        /\ tk.url \notin DOMAIN packuments

\* C12: a packument call that sent its GET and ends in an error other than
\* the parse error ends in FetchFailed with the package name, after exactly
\* one GET.
C12_TransportFailureIsFetchFailed ==
    \A tk \in Running :
        (InPfn(tk) /\ Finishing(tk) /\ tk.reqs >= 1 /\ tk.result.kind = "err"
            /\ ~Failed(tk, "SerdeError")) =>
            /\ tk.result.err.error = "FetchFailed"
            /\ tk.result.err.name = tk.name
            /\ tk.reqs = 1

C13_TarballFrames ==
    /\ \A tk \in Running :
          (tk.op = "tarball" /\ tk.resolved.kind = "Npm") =>
              /\ is_some(tk.request) =>
                    /\ unwrap(tk.request).url = tk.resolved.tarball
                    /\ unwrap(tk.request).method = "GET"
                    /\ ~tk.guard
              /\ (tk.pc = "done" /\ tk.result.kind = "ok") =>
                    tk.result.val = [stream_of |-> tk.resolved.tarball]
              /\ tk.reqs <= 1
    /\ (client = "locked" /\ \E tk \in Running : tk.pc = "tb_lock") =>
          \E h \in Running : h.guard /\ h.request = None

\* C13: a tarball call asks for the url of its own resolution and, when the
\* GET succeeds, returns the stream of that url, whatever the other calls
\* do; a tarball call that waits for the mutex waits for a task that is
\* cloning the client, never for one with a GET in flight; and no step of a
\* tarball call changes the packument cache.
C13_TarballIndependence ==
    /\ []C13_TarballFrames
    /\ [][\A tk \in Frames :
            (tk.op = "tarball" /\ Moves(tk)) => packuments' = packuments]_vars

\* the tarball call for version 2 has returned its stream while the one for
\* version 1 still has its GET in flight
C13_Witness ==
    /\ \E tk \in Running :
          /\ tk.op = "tarball" /\ tk.pc = "done"
          /\ tk.result = Ok([stream_of |-> "https://a.example/bar/-/bar-2.tgz"])
    /\ \E tk \in Running :
          /\ tk.op = "tarball" /\ tk.pc = "tb_wait"
          /\ unwrap(tk.request).url = "https://a.example/bar/-/bar-1.tgz"

C14_AbandonedFrames ==
    /\ (client = "locked") <=> (\E tk \in Running : tk.guard)
    /\ DOMAIN packuments \subseteq DOMAIN returned
    /\ \A tk \in Running :
          tk.pc = "dropped" =>
              /\ ~tk.guard /\ tk.request = None /\ tk.result = NoResult
              /\ (tk.url # "" /\ tk.url \notin DOMAIN returned) =>
                    tk.url \notin DOMAIN packuments

\* C14: a packument or tarball call dropped at one of its suspension points
\* holds no guard there, so the step that drops it leaves the mutex and the
\* cache as they are; the mutex is locked only while a running call is
\* cloning the client; every cache entry is there since a call on its url
\* returned it, and a step that changes the cache is the last step of the
\* call that inserts: a dropped call has not inserted and never will.
C14_AbandonLeavesNothing ==
    /\ []C14_AbandonedFrames
    /\ [][/\ \A tk \in Frames :
                (tk.pc = "dropped" /\ Arrives(tk)) =>
                    (packuments' = packuments /\ client' = client)
          /\ packuments' # packuments =>
                \E tk \in Frames : Finishing(tk) /\ Arrives(tk)]_vars

\* a packument call was dropped with its GET in flight: its url is not in
\* the cache, the mutex is free and another call is about to take it
C14_Witness ==
    /\ \E tk \in Running :
          /\ tk.op = "packument" /\ tk.pc = "dropped" /\ tk.reqs = 1
          /\ tk.resp = NoResp
          /\ tk.url \notin DOMAIN packuments
    /\ client = "unlocked"
    /\ \E tk \in Running : tk.pc \in {"pfn_lock", "tb_lock"}

C15_AcceptFrames ==
    \A tk \in Running :
        tk.pc = "pfn_wait" =>
            /\ is_some(tk.request)
            /\ unwrap(tk.request).method = "GET"
            /\ use_corgi =>
                  unwrap(tk.request).accept =
                      "application/vnd.npm.install-v1+json; q=1.0, application/json; q=0.8, */*"
            /\ ~use_corgi => unwrap(tk.request).accept = "application/json"

\* C15: every packument GET in flight carries the Accept header of the
\* fetcher's use_corgi flag, the compact one when the flag is set and
\* application/json when it is not, and no step changes the flag.
C15_AcceptHeader ==
    /\ []C15_AcceptFrames
    /\ [][use_corgi' = use_corgi]_vars

\* a fetcher built without corgi has two packument GETs in flight, for two
\* registries, both asking for application/json
C15_Witness ==
    /\ ~use_corgi
    /\ \E t1, t2 \in Running :
          /\ t1.pc = "pfn_wait" /\ t2.pc = "pfn_wait"
          /\ t1.url # t2.url
          /\ unwrap(t1.request).accept = JsonAccept
          /\ unwrap(t2.request).accept = JsonAccept

Range(seq) == {seq[i] : i \in DOMAIN seq}

\* C16: after OroPack::load and project_paths on a project whose manifest
\* declares "files": [], the paths are the always-included files the
\* project holds, package.json and README.md, in path order (README.md
\* first), and no other file of the project, such as src/module.js or
\* src/index.js, is among them.
C16_EmptyFilesList ==
    (pack.pc = "listed" /\ pack.manifest.files = <<>>) =>
        /\ Range(pack.paths) = pack.root \cap {"package.json", "README.md"}
        /\ "README.md" \in pack.root =>
              pack.paths = <<"README.md", "package.json">>
        /\ "src/module.js" \notin Range(pack.paths)
        /\ "src/index.js" \notin Range(pack.paths)

\* the project of the test: package.json with "files": [], README.md,
\* src/module.js and src/index.js; the paths have been computed
C16_Witness ==
    /\ pack.pc = "listed"
    /\ pack.manifest.files = <<>>
    /\ pack.root = {"package.json", "README.md", "src/module.js",
                    "src/index.js"}
    /\ pack.paths = <<"README.md", "package.json">>

\* C17: a packument call that is going to hit the cache (its url was cached
\* when it started) or to fail with InvalidPackageName never waits for the
\* client mutex and never holds its guard.
C17_LockOnlyOnMiss ==
    \A tk \in Running :
        (InPfn(tk) /\ (tk.floor >= 0 \/ tk.name \in InvalidNames)) =>
            /\ tk.pc \notin {"pfn_lock", "pfn_clone"}
            /\ ~tk.guard

\* C18: the cache is keyed by the url pick_registry(scope) joined with the
\* name: every entry holds the document of its own url; a call that hit the
\* cache hit the entry of its own url and returns that registry's document;
\* and a call whose url had been returned before it started sends no GET,
\* whatever scope it was called with.
C18_KeyedByUrl ==
    /\ \A u \in DOMAIN packuments : packuments[u].source = u
    /\ \A tk \in Running :
          (tk.op = "packument" /\ tk.url # "") =>
              /\ tk.url = pick_registry(tk.scope) \o tk.name
              /\ tk.floor >= 0 => tk.reqs = 0
              /\ (tk.pc = "done" /\ tk.result.kind = "ok") =>
                    /\ tk.result.val.source = tk.url
                    /\ tk.url \in DOMAIN packuments
                    /\ tk.reqs = 0 => tk.result.val = packuments[tk.url]

\* "bar" is cached for the registry of "", and the call for "@foo"/"bar",
\* routed to another registry, has fetched and returned that registry's
\* own document: two entries for one name
C18_Witness ==
    /\ pick_registry(None) # pick_registry(Some("@foo"))
    /\ pick_registry(None) \o "bar" \in DOMAIN packuments
    /\ \E tk \in Running :
          /\ tk.op = "packument" /\ tk.scope = Some("@foo") /\ tk.name = "bar"
          /\ tk.pc = "done" /\ tk.reqs = 1 /\ tk.result.kind = "ok"
          /\ tk.result.val.source = pick_registry(Some("@foo")) \o "bar"
          /\ packuments[tk.url] = tk.result.val
          /\ packuments[pick_registry(None) \o "bar"].source
                = pick_registry(None) \o "bar"

C19_CacheEntries ==
    \A u \in DOMAIN packuments :
        /\ u \in DOMAIN returned
        /\ \E r \in 0..clock :
              /\ packuments[u] = RegistryDoc(u, r)
              /\ r <= returned[u]

\* C19: every cache entry is a document its url's registry served, one that
\* a packument call on that url received, parsed and returned; a step that
\* changes the cache is the step of a call that has read a body that parses,
\* and puts exactly that parsed body under the call's url; a call that ends
\* in an error leaves the cache as it was; and no step removes an entry.
C19_CacheHoldsParsedBodies ==
    /\ []C19_CacheEntries
    /\ [][/\ DOMAIN packuments \subseteq DOMAIN packuments'
          /\ packuments' # packuments =>
                \E tk \in Running :
                    /\ tk.pc = "pfn_body" /\ tk.resp.json
                    /\ CopiesIn(tk, tasks') < CopiesIn(tk, tasks)
                    /\ packuments' =
                          [u \in DOMAIN packuments \cup {tk.url} |->
                              IF u = tk.url THEN tk.resp.doc ELSE packuments[u]]
          /\ \A tk \in Frames :
                (Arrives(tk) /\ tk.result.kind = "err") =>
                    packuments' = packuments]_vars

\* a call that fetched has ended in an error while its rival's document for
\* the same url is in the cache, untouched
C19_Witness ==
    \E tk \in Running :
        /\ InPfn(tk) /\ tk.pc = "done" /\ tk.reqs = 1
        /\ tk.result.kind = "err"
        /\ tk.url \in DOMAIN packuments
        /\ packuments[tk.url] = RegistryDoc(tk.url, returned[tk.url])

\* C20: under fair scheduling and a network that answers, the running calls
\* all come to their end (a value, an error or a panic) and are taken by
\* their spawners, so that from some point on no call is left; and whenever
\* no call is left unfinished the client mutex is free.
C20_NoLostCall ==
    /\ []((\A tk \in Running : Finishing(tk)) => client = "unlocked")
    /\ <>[](tasks = EmptyBag)

\* every call of the run has been started and has ended, packument calls
\* among them, and the mutex is free
C20_Witness ==
    /\ tasks = EmptyBag
    /\ calls = MaxCalls
    /\ packuments # EmptyMap
    /\ client = "unlocked"

====
